---- MODULE Spec2Model ----
(***************************************************************************)
(* The pull-request review pipeline of aiCodeReview: the tRPC routers      *)
(* (repository, pullRequest, review), the stored GitHub account, the       *)
(* review/pr.requested event and the reviewPR background function.         *)
(*                                                                         *)
(* Every `await` of a handler is a point where another request or job step *)
(* can run, so review.trigger and reviewPR are modelled one awaited call    *)
(* per action.  The read-only pullRequest queries are one action each.     *)
(***************************************************************************)
EXTENDS Integers, Sequences, FiniteSets, TLC

\* ------------------------------------------------------------------ bounds
MaxReviews == 1      \* review rows created in one behaviour of the pipeline
MaxRepos == 1        \* repository rows created in one behaviour of the pipeline
MaxApiReviews == 1   \* review rows created in one behaviour of the routers
MaxApiRepos == 1     \* repository rows created in one behaviour of the routers
MaxConnectInput == 2 \* repositories in the input of one repository.connect
MaxCheckReviews == 1 \* review rows created in one behaviour of the precondition checks
MaxCheckRepos == 1   \* repository rows created in one behaviour of the precondition checks
MaxOwnReviews == 1   \* review rows created in one behaviour of the review queries
MaxOwnRepos == 1     \* repository rows created in one behaviour of the review queries
MaxItems == 201      \* repositories, files or pull requests GitHub has to list
MaxAuthReviews == 1  \* review rows created in one behaviour of the middleware
MaxAuthRepos == 1    \* repository rows created in one behaviour of the middleware
MaxDiscReviews == 1  \* review rows created in one behaviour of connect and disconnect
MaxDiscRepos == 2    \* repository rows created in one behaviour of connect and disconnect
MaxFiles == 2        \* files in the array reviewCode is called with

\* ------------------------------------------------------- program constants
Retries == 2         \* review-pr.ts: retries: 2
MinRiskScore == 0    \* ai service: z.number().min(0)
MaxRiskScore == 100  \* ai service: .max(100)
PerPage == 100       \* github client: const perPage = 100
PullsPerPage == 30   \* github client: fetchPullRequests, per_page=30

\* ------------------------------------------------------------- value sets
Users == {"alice", "bob"}
GithubIds == {11, 12}
PRNumbers == {7}
ReviewIds == 1..MaxReviews
NULL == "null"       \* null / undefined of the program

\* repository.fullName values a client can store through repository.connect
\* (z.string(): any string), as sequences of characters
FullNames == { <<"o", "/", "r">>, <<"o", "/">>, <<"o", "r">> }

\* ------------------------------------------------------ String.split("/")
RECURSIVE SplitFrom(_, _, _)
SplitFrom(s, i, cur) ==
    IF i > Len(s) THEN <<cur>>
    ELSE IF s[i] = "/" THEN <<cur>> \o SplitFrom(s, i + 1, <<>>)
    ELSE SplitFrom(s, i + 1, Append(cur, s[i]))

\* fullName.split("/")
Split(s) == SplitFrom(s, 1, <<>>)

\* const [owner, repo] = fullName.split("/"); !x is true of undefined and of ""
Falsy(parts, i) == Len(parts) < i \/ parts[i] = <<>>

\* a mutant of ValidFullName: && written for ||
ValidFullNameAnd(s) == ~(Falsy(Split(s), 1) /\ Falsy(Split(s), 2))

\* the negation of (!owner || !repo)
ValidFullName(s) == ~(Falsy(Split(s), 1) \/ Falsy(Split(s), 2))

\* ------------------------------------------------------------- AI service
Severities == {"critical", "high", "medium", "low"}
Categories == {"bug", "security", "performance", "style", "suggestion"}

\* comments an LLM answer can carry: one of the schema, one with an unknown severity
GoodComment == [severity |-> "high", category |-> "bug"]
BadComment == [severity |-> "blocker", category |-> "bug"]

\* the JSON documents the model lets the LLM answer with
JsonValues ==
    [ summary : {"text", NULL},
      riskScore : {MinRiskScore - 1, MinRiskScore, MaxRiskScore, MaxRiskScore + 1},
      comments : {<<GoodComment>>, <<BadComment>>} ]

\* outcomes of openai.chat.completions.create followed by JSON.parse
LLMOutcomes == {"api-error", "no-content", "bad-json", "json"}

\* a mutant of ReviewCommentSchema: severity a plain string, not the enum
ReviewCommentSchemaAnySeverity(c) == c.category \in Categories

\* ReviewCommentSchema
ReviewCommentSchema(c) == c.severity \in Severities /\ c.category \in Categories

\* a mutant of ReviewResultSchema: the .max(100) left out
ReviewResultSchemaNoMax(v) ==
    /\ v.summary # NULL
    /\ v.riskScore >= MinRiskScore
    /\ \A i \in 1..Len(v.comments) : ReviewCommentSchema(v.comments[i])

\* ReviewResultSchema.parse succeeds
ReviewResultSchema(v) ==
    /\ v.summary # NULL
    /\ v.riskScore >= MinRiskScore /\ v.riskScore <= MaxRiskScore
    /\ \A i \in 1..Len(v.comments) : ReviewCommentSchema(v.comments[i])

\* the result reviewCode returns when no file has a patch
DefaultResult == [summary |-> "no-code-changes", riskScore |-> 0, comments |-> <<>>]

\* files of a pull request as GitHub returns them: only `patch` matters to the
\* pipeline (absent for binary files, "" falsy, or a diff)
Patches == {NULL, "", "diff"}
FileLists == { <<[patch |-> p]>> : p \in Patches }

\* a mutant of WithPatch: f.patch !== undefined written for f.patch
WithPatchDefined(files) == SelectSeq(files, LAMBDA f : f.patch # NULL)

\* files.filter((f) => f.patch): the files whose patch is truthy
WithPatch(files) == SelectSeq(files, LAMBDA f : f.patch \notin {NULL, ""})

\* a mutant of EmptyDiff: the list of files tested in place of the diff text
EmptyDiffNoFiles(files) == Len(files) = 0

\* !diffContent.trim(): every kept file contributes a non-blank header
EmptyDiff(files) == Len(WithPatch(files)) = 0

\* .map((f) => `### ${f.filename} ...\n${f.patch}...`): the section of a file
Section(f) == [filename |-> f.filename, patch |-> f.patch]

\* diffContent: filter, map, join("\n\n"), kept as the sequence of the sections
DiffContent(files) ==
    [ i \in 1..Len(WithPatch(files)) |-> Section(WithPatch(files)[i]) ]

\* the files reviewCode is called with: two without a usable patch, two with one
FileChanges ==
    { [filename |-> "a", patch |-> NULL], [filename |-> "b", patch |-> ""],
      [filename |-> "c", patch |-> "diff"], [filename |-> "d", patch |-> "diff"] }

\* the arrays of at most n of them
FileChangeLists(n) == UNION { [1..k -> FileChanges] : k \in 0..n }

\* ------------------------------------------------------------------ state
VARIABLES
    onDelete,      \* referential action of Review.repository in the database schema
    repository,    \* table Repository: a set of rows
    nextRepoId,    \* ids (cuid) already given to repository rows, plus one
    account,       \* users with a stored GitHub account row (an access token)
    review,        \* table Review: a function from the ids of its rows to the rows
    nextReviewId,  \* ids (cuid) already given to review rows, plus one
    events,        \* review/pr.requested events sent to the job runner
    job,           \* runs of reviewPR, by review id: position, attempt, step results
    trig,          \* the review.trigger call in progress: position and locals
    resp,          \* the response of the latest request, until something else happens
    gh,            \* the call of the GitHub client in progress: its loop and its result
    ai             \* the call of the AI service in progress: its input and its result

vars == <<onDelete, repository, nextRepoId, account, review, nextReviewId,
          events, job, trig, resp, gh, ai>>

\* what the database does to review rows when their repository row is deleted:
\* delete them, refuse the delete, or nothing (no foreign key in the database)
OnDeleteModes == {"Cascade", "Restrict", "NoAction"}

Statuses == {"PENDING", "PROCESSING", "COMPLETED", "FAILED"}
Terminal == {"COMPLETED", "FAILED"}

\* ------------------------------------------------------------- database
\* db.repository.findUnique({ where: { id } }): the set of matching rows (0 or 1)
RepoById(id) == { r \in repository : r.id = id }

\* a mutant of FindOwnRepository: the userId of the where clause left out
FindAnyRepository(id, u) == RepoById(id)

\* db.repository.findUnique({ where: { id, userId: ctx.user.id } })
FindOwnRepository(id, u) == { r \in repository : r.id = id /\ r.userId = u }

\* getGitHubAccessToken(userId): account?.accessToken ?? null
getGitHubAccessToken(u) == IF u \in account THEN "token" ELSE NULL

\* the rows of Review that refer to repository id
ReviewsOfRepo(id) == { r \in DOMAIN review : review[r].repositoryId = id }

\* a mutant of NewReview: the row created with the status the job sets first
NewReviewProcessing(repo, u, pr) ==
    [ repositoryId |-> repo.id, userId |-> u, prNumber |-> pr,
      status |-> "PROCESSING", error |-> NULL, summary |-> NULL,
      riskScore |-> {}, comments |-> {} ]

\* the data of db.review.create in review.trigger; the other columns are null
NewReview(repo, u, pr) ==
    [ repositoryId |-> repo.id, userId |-> u, prNumber |-> pr,
      status |-> "PENDING", error |-> NULL, summary |-> NULL,
      riskScore |-> {}, comments |-> {} ]

\* a mutant of NewEvent: the GitHub id of the repository sent as repositoryId
NewEventGithubId(id, repo, u, pr) ==
    [ reviewId |-> id, repositoryId |-> repo.githubId, prNumber |-> pr, userId |-> u ]

\* the event data of inngest.send in review.trigger
NewEvent(id, repo, u, pr) ==
    [ reviewId |-> id, repositoryId |-> repo.id, prNumber |-> pr, userId |-> u ]

\* the run the job runner starts for an event: nothing done yet
NewJob(e) ==
    [ pc |-> "update-status-processing", attempts |-> 0, steps |-> {},
      repositoryId |-> e.repositoryId, prNumber |-> e.prNumber, userId |-> e.userId,
      repository |-> {}, accessToken |-> NULL, files |-> <<>>, pr |-> NULL,
      reviewResult |-> {}, github |-> FALSE, llm |-> 0, thrownAt |-> NULL,
      llmOut |-> NULL ]

IdleCall == [ pc |-> "idle", user |-> NULL, repositoryId |-> 0, prNumber |-> 0,
              repository |-> {}, created |-> {} ]

NoResp == [ op |-> NULL, user |-> NULL, repositoryId |-> 0, code |-> NULL,
            prs |-> {}, reviews |-> {}, github |-> FALSE, readReviews |-> FALSE,
                                        reviewId |-> 0, repos |-> {}, connected |-> 0, input |-> <<>> ]

\* no call of the AI service is in progress
NoReview == [ pc |-> "idle", files |-> <<>>, apiKey |-> FALSE, prompt |-> <<>>,
              llm |-> 0, result |-> {} ]

\* no call of the GitHub client is in progress
NoCall == [ fn |-> NULL, total |-> 0, page |-> 0, acc |-> <<>>, pc |-> "idle",
            result |-> <<>> ]

Init ==
    /\ onDelete \in OnDeleteModes
    /\ repository = {}
    /\ nextRepoId = 1
    /\ account = {}
    /\ review = <<>>
    /\ nextReviewId = 1
    /\ events = {}
    /\ job = <<>>
    /\ trig = IdleCall
    /\ resp = NoResp
    /\ gh = NoCall
    /\ ai = NoReview

\* ------------------------------------------------- GitHub account (auth)
\* signing in with GitHub stores an account row with the access token
LinkGitHub(u) ==
    /\ u \notin account
    /\ account' = account \cup {u}
    /\ UNCHANGED <<ai, gh, onDelete, repository, nextRepoId, review, nextReviewId,
                   events, job, trig>>
    /\ resp' = NoResp

\* unlinking the GitHub account removes the row
UnlinkGitHub(u) ==
    /\ u \in account
    /\ account' = account \ {u}
    /\ UNCHANGED <<ai, gh, onDelete, repository, nextRepoId, review, nextReviewId,
                   events, job, trig>>
    /\ resp' = NoResp

\* ------------------------------------------------------------- responses
\* a request that throws `code`: no data
Thrown(op, u, id, code, github) ==
    [ op |-> op, user |-> u, repositoryId |-> id, code |-> code,
      prs |-> {}, reviews |-> {}, github |-> github, readReviews |-> FALSE,
                                        reviewId |-> 0, repos |-> {}, connected |-> 0, input |-> <<>> ]

\* ------------------------------------------------------ protectedProcedure
\* the session of a request: getSession gives null without a valid session
\* cookie, so ctx.session?.user is undefined
NoSession == [user |-> NULL]

\* the sessions a request can come with: none, or the session of a user of U
Sessions(U) == {NoSession} \cup { [user |-> u] : u \in U }

\* a mutant of HasUser: the check of the middleware left out
HasUserAlways(session) == TRUE

\* the negation of !ctx.session?.user
HasUser(session) == session.user # NULL

\* next({ ctx: { ...ctx, user: ctx.session.user } }): the ctx.user of the handler
CtxUser(session) == session.user

\* the procedures of the repository, pullRequest and review routers
Operations ==
    { "repository.list", "repository.fetchFromGithub", "repository.connect",
      "repository.disconnect", "list", "get", "files",
      "trigger", "review.get", "review.list", "review.getLatestForPR" }

\* the middleware throws UNAUTHORIZED: next is not called, the handler does not run
Unauthorized(op) ==
    /\ trig.pc = "idle"
    /\ resp' = Thrown(op, NULL, 0, "UNAUTHORIZED", FALSE)
    /\ UNCHANGED <<ai, gh, onDelete, repository, nextRepoId, account, review, nextReviewId,
                   events, job, trig>>

\* ----------------------------------------------------- repositoryRouter
\* an element of input.repos of connect
RepoInput(g, name, fn, private, url) ==
    [ githubId |-> g, name |-> name, fullName |-> fn, private |-> private,
      htmlUrl |-> url ]

\* a mutant of UpdateData: the fullName of the update left out
UpdateDataNoFullName(row, repo) ==
    [row EXCEPT !.name = repo.name, !.private = repo.private,
                !.htmlUrl = repo.htmlUrl]

\* update: { name, fullName, private, htmlUrl, updatedAt } of the upsert
UpdateData(row, repo) ==
    [row EXCEPT !.name = repo.name, !.fullName = repo.fullName,
                !.private = repo.private, !.htmlUrl = repo.htmlUrl]

\* create: { userId, githubId, name, fullName, private, htmlUrl } of the upsert
CreateData(id, u, repo) ==
    [ id |-> id, userId |-> u, githubId |-> repo.githubId, name |-> repo.name,
      fullName |-> repo.fullName, private |-> repo.private, htmlUrl |-> repo.htmlUrl ]

\* db.repository.upsert({ where: { githubId }, create, update }) on the table
\* t = [rows, nextId]: the row with the githubId is updated, or one is created
Upsert(t, u, repo) ==
    IF \E r \in t.rows : r.githubId = repo.githubId
    THEN [ rows |-> { IF r.githubId = repo.githubId THEN UpdateData(r, repo) ELSE r
                      : r \in t.rows },
           nextId |-> t.nextId ]
    ELSE [ rows |-> t.rows \cup {CreateData(t.nextId, u, repo)},
           nextId |-> t.nextId + 1 ]

\* the orders in which the database can run the upserts of one Promise.all:
\* every order when two of them are on the same githubId, and the order of the
\* array otherwise, as upserts on different rows commute
Orders(input) ==
    LET n == Len(input) IN
    IF \E i, j \in 1..n : i # j /\ input[i].githubId = input[j].githubId
    THEN { f \in [1..n -> 1..n] : \A i, j \in 1..n : f[i] = f[j] => i = j }
    ELSE { [i \in 1..n |-> i] }

\* the table after the first k upserts of input.repos, run in the order `order`
RECURSIVE UpsertAll(_, _, _, _, _)
UpsertAll(t, u, input, order, k) ==
    IF k = 0 THEN t
    ELSE Upsert(UpsertAll(t, u, input, order, k - 1), u, input[order[k]])

\* two upserts of one call race to create the row of the same githubId
RacingCreates(input) ==
    \E i, j \in 1..Len(input) :
        /\ i # j /\ input[i].githubId = input[j].githubId
        /\ ~ \E r \in repository : r.githubId = input[i].githubId

\* repository.connect: Promise.all of one upsert per element of input.repos,
\* then { connected: result.length }.  An upsert that loses the race to create
\* a row can be refused by the unique index on githubId: the call then throws
\* after the upserts that ran.  Rows are created while ids up to `cap` are left.
\* `resp` keeps the response of a call that is observed, a client of the
\* routers under study; the call of another client only changes the table.
Connect(u, input, cap, observed) ==
    /\ \E order \in Orders(input) :
         \/ \E t \in {UpsertAll([rows |-> repository, nextId |-> nextRepoId],
                                u, input, order, Len(input))} :
            /\ t.nextId <= cap + 1
            /\ repository' = t.rows
            /\ nextRepoId' = t.nextId
            /\ resp' = IF observed
                       THEN [ op |-> "repository.connect", user |-> u, repositoryId |-> 0,
                              code |-> "ok", prs |-> {}, reviews |-> {},
                              github |-> FALSE, readReviews |-> FALSE,
                              reviewId |-> 0, repos |-> {}, connected |-> Len(input),
                              input |-> input ]
                       ELSE NoResp
         \/ /\ RacingCreates(input)
            /\ \E k \in 1..(Len(input) - 1) :
               \E t \in {UpsertAll([rows |-> repository, nextId |-> nextRepoId],
                                    u, input, order, k)} :
                 /\ t.nextId <= cap + 1
                 /\ repository' = t.rows
                 /\ nextRepoId' = t.nextId
                 /\ resp' = IF observed
                            THEN [Thrown("repository.connect", u, 0, "DB_ERROR", FALSE)
                                    EXCEPT !.input = input]
                            ELSE NoResp
    /\ UNCHANGED <<ai, gh, onDelete, account, review, nextReviewId, events, job, trig>>

\* a mutant of DeleteWhere: the userId of the where clause left out
DeleteWhereAnyUser(id, u) == { r \in repository : r.id = id }

\* where: { id: input.id, userId: ctx.user.id } of repository.disconnect
DeleteWhere(id, u) == { r \in repository : r.id = id /\ r.userId = u }

\* the response of repository.disconnect: { success: true }, or what delete threw
Disconnected(u, id, code) ==
    [ op |-> "repository.disconnect", user |-> u, repositoryId |-> id, code |-> code,
      prs |-> {}, reviews |-> {}, github |-> FALSE, readReviews |-> FALSE,
      reviewId |-> 0, repos |-> {}, connected |-> 0, input |-> <<>> ]

\* repository.disconnect: db.repository.delete({ where: { id, userId } }), then
\* { success: true }.  With no such row, or with a delete the database refuses
\* because review rows refer to the repository, delete throws and nothing
\* changes.  `resp` keeps the response of a call that is observed; a call of
\* another client that throws is no step at all.
Disconnect(u, id, observed) ==
    /\ IF DeleteWhere(id, u) = {} \/ (onDelete = "Restrict" /\ ReviewsOfRepo(id) # {})
       THEN /\ observed
            /\ resp' = Disconnected(u, id, "DB_ERROR")
            /\ UNCHANGED <<repository, review>>
       ELSE /\ repository' = repository \ DeleteWhere(id, u)
            /\ review' = IF onDelete = "Cascade"
                         THEN [r \in DOMAIN review \ ReviewsOfRepo(id) |-> review[r]]
                         ELSE review
            /\ resp' = IF observed THEN Disconnected(u, id, "ok") ELSE NoResp
    /\ UNCHANGED <<ai, gh, onDelete, nextRepoId, account, nextReviewId, events, job, trig>>

\* --------------------------------------------------------- review.trigger
\* One call of review.trigger is followed through its awaits at a time: a call
\* reads the tables and writes one row and one event, and shares nothing else
\* with another call.

\* the call throws: its locals are gone
TriggerThrows(code, github) ==
    /\ trig' = IdleCall
    /\ resp' = Thrown("trigger", trig.user, trig.repositoryId, code, github)

\* ctx.db.repository.findUnique({ where: { id, userId } }) and the NOT_FOUND check.
\* A call starts only while the model has one of its `cap` review ids left.
TriggerFindRepository(u, id, pr, cap) ==
    /\ trig.pc = "idle"
    /\ nextReviewId <= cap
    /\ IF FindOwnRepository(id, u) = {}
       THEN /\ trig' = IdleCall
            /\ resp' = Thrown("trigger", u, id, "NOT_FOUND", FALSE)
       ELSE /\ trig' = [IdleCall EXCEPT !.pc = "get-token", !.user = u, !.repositoryId = id,
                                     !.prNumber = pr, !.repository = FindOwnRepository(id, u)]
            /\ resp' = NoResp
    /\ UNCHANGED <<ai, gh, onDelete, repository, nextRepoId, account, review, nextReviewId,
                   events, job>>

\* getGitHubAccessToken, the PRECONDITION_FAILED check, the split of fullName
\* and the BAD_REQUEST check
TriggerGetToken(u) ==
    /\ trig.pc = "get-token" /\ trig.user = u
    /\ LET repo == CHOOSE r \in trig.repository : TRUE IN
       IF getGitHubAccessToken(u) = NULL THEN TriggerThrows("PRECONDITION_FAILED", FALSE)
       ELSE IF ~ValidFullName(repo.fullName) THEN TriggerThrows("BAD_REQUEST", FALSE)
       ELSE trig' = [trig EXCEPT !.pc = "fetch-pr"] /\ resp' = NoResp
    /\ UNCHANGED <<ai, gh, onDelete, repository, nextRepoId, account, review, nextReviewId,
                   events, job>>

\* fetchPullRequest: GitHub answers with the pull request, or with a status
\* that is not OK (no such pull request, a revoked token) and the call throws
TriggerFetchPR(u) ==
    /\ trig.pc = "fetch-pr" /\ trig.user = u
    /\ \E ok \in BOOLEAN :
         IF ok THEN trig' = [trig EXCEPT !.pc = "create"] /\ resp' = NoResp
         ELSE TriggerThrows("GITHUB_ERROR", TRUE)
    /\ UNCHANGED <<ai, gh, onDelete, repository, nextRepoId, account, review, nextReviewId,
                   events, job>>

\* ctx.db.review.create: a database that enforces the foreign key refuses a row
\* whose repository row is gone
TriggerCreate(u) ==
    /\ trig.pc = "create" /\ trig.user = u
    /\ LET repo == CHOOSE r \in trig.repository : TRUE IN
       IF onDelete # "NoAction" /\ RepoById(repo.id) = {}
       THEN /\ TriggerThrows("DB_ERROR", TRUE)
            /\ UNCHANGED <<review, nextReviewId>>
       ELSE /\ review' = review @@ (nextReviewId :> NewReview(repo, u, trig.prNumber))
            /\ nextReviewId' = nextReviewId + 1
            /\ trig' = [trig EXCEPT !.pc = "send",
                                    !.created = trig.created \cup {nextReviewId}]
            /\ resp' = NoResp
    /\ UNCHANGED <<ai, gh, onDelete, repository, nextRepoId, account, events, job>>

\* inngest.send: the event reaches the job runner, which starts a run of
\* reviewPR for it, and the call returns { reviewId }; or the send throws
TriggerSend(u) ==
    /\ trig.pc = "send" /\ trig.user = u
    /\ LET repo == CHOOSE r \in trig.repository : TRUE
           id == CHOOSE r \in trig.created : TRUE
           e == NewEvent(id, repo, u, trig.prNumber) IN
       \E ok \in BOOLEAN :
         IF ok
         THEN /\ events' = events \cup {e}
              /\ job' = job @@ (id :> NewJob(e))
              /\ trig' = IdleCall
              /\ resp' = [ op |-> "trigger", user |-> u, repositoryId |-> trig.repositoryId,
                           code |-> "ok", prs |-> {trig.prNumber}, reviews |-> {id},
                           github |-> TRUE, readReviews |-> FALSE,
                                        reviewId |-> 0, repos |-> {}, connected |-> 0, input |-> <<>> ]
         ELSE /\ TriggerThrows("SEND_ERROR", TRUE)
              /\ UNCHANGED <<events, job>>
    /\ UNCHANGED <<ai, gh, onDelete, repository, nextRepoId, account, review, nextReviewId>>

\* ------------------------------------------------------ reviewPR (the job)
\* The job runner runs the handler one step.run at a time and keeps the result
\* of every step that returned: a re-execution of the handler takes those
\* results from the run's state and runs the first step that has none.  A step
\* that throws is run again, `retries` times at most; after that the run has
\* failed and the handler is not executed again for the event.
Running(r) == r \in DOMAIN job /\ job[r].pc \notin {"done", "failed"}

\* a step returns: its result is part of j and kept under the step's name, the
\* handler goes on to `next`
StepReturns(r, j, next) ==
    job' = [job EXCEPT ![r] = [j EXCEPT !.pc = next, !.attempts = 0,
                                        !.steps = j.steps \cup {job[r].pc}]]

\* a mutant of StepThrows: the retry starts the handler again with nothing kept
StepThrowsRestart(r, j) ==
    IF job[r].attempts < Retries
    THEN job' = [job EXCEPT ![r] = [j EXCEPT !.attempts = job[r].attempts + 1,
                                             !.pc = "update-status-processing",
                                             !.steps = {}]]
    ELSE job' = [job EXCEPT ![r] = [j EXCEPT !.pc = "failed", !.thrownAt = job[r].pc]]

\* a step throws: nothing in the handler catches, the runner retries or gives up
StepThrows(r, j) ==
    IF job[r].attempts < Retries
    THEN job' = [job EXCEPT ![r] = [j EXCEPT !.attempts = job[r].attempts + 1]]
    ELSE job' = [job EXCEPT ![r] = [j EXCEPT !.pc = "failed", !.thrownAt = job[r].pc]]

\* a mutant of ReviewWhere: the rows of the same repository and pull request
ReviewWhereSamePR(id) ==
    { r \in DOMAIN review :
        /\ id \in DOMAIN review
        /\ review[r].repositoryId = review[id].repositoryId
        /\ review[r].prNumber = review[id].prNumber }

\* where: { id: reviewId } of the job's db.review.update
ReviewWhere(id) == { r \in DOMAIN review : r = id }

\* db.review.update({ where: { id }, data }) throws when no row has the id
CanUpdate(r) == ReviewWhere(r) # {}

\* the table after db.review.update({ where: { id }, data }), where updated[r]
\* is the row r with the data
UpdateReview(id, updated) ==
    [ r \in DOMAIN review |-> IF r \in ReviewWhere(id) THEN updated[r] ELSE review[r] ]

\* step "update-status-processing"
ProcessingData(row) == [row EXCEPT !.status = "PROCESSING"]

UpdateStatusProcessing(r) ==
    /\ Running(r) /\ job[r].pc = "update-status-processing"
    /\ IF CanUpdate(r)
       THEN /\ review' = UpdateReview(r, [x \in DOMAIN review |-> ProcessingData(review[x])])
            /\ StepReturns(r, job[r], "get-repository")
       ELSE /\ StepThrows(r, job[r])
            /\ UNCHANGED review
    /\ UNCHANGED <<ai, gh, onDelete, repository, nextRepoId, account, nextReviewId,
                   events, trig>>
    /\ resp' = NoResp

\* step "get-repository" and the branch on !repository
GetRepository(r) ==
    /\ Running(r) /\ job[r].pc = "get-repository"
    /\ LET found == RepoById(job[r].repositoryId) IN
       StepReturns(r, [job[r] EXCEPT !.repository = found],
                   IF found = {} THEN "mark-failed-no-repo" ELSE "get-access-token")
    /\ UNCHANGED <<ai, gh, onDelete, repository, nextRepoId, account, review, nextReviewId,
                   events, trig>>
    /\ resp' = NoResp

\* a mutant of FailedData: the status of review.trigger's create pasted in
FailedDataPending(row, reason) == [row EXCEPT !.status = "PENDING", !.error = reason]

\* data: { status: "FAILED", error: reason }
FailedData(row, reason) == [row EXCEPT !.status = "FAILED", !.error = reason]

\* a mutant of AfterMarkFailed: the return after the token and the name branch
\* left out, so the handler goes on with the step that follows the branch
AfterMarkFailedNoReturn(step) ==
    CASE step = "mark-failed-no-repo" -> "done"
      [] step = "mark-failed-no-token" -> "fetch-pr-files"
      [] step = "mark-failed-invalid-repo" -> "fetch-pr-files"

\* return { success: false, error } after each mark-failed step
AfterMarkFailed(step) == "done"

\* the three mark-failed steps: one update, then the handler returns
MarkFailed(r, step, reason) ==
    /\ Running(r) /\ job[r].pc = step
    /\ IF CanUpdate(r)
       THEN /\ review' = UpdateReview(r, [x \in DOMAIN review |-> FailedData(review[x], reason)])
            /\ StepReturns(r, job[r], AfterMarkFailed(step))
       ELSE /\ StepThrows(r, job[r])
            /\ UNCHANGED review
    /\ UNCHANGED <<ai, gh, onDelete, repository, nextRepoId, account, nextReviewId,
                   events, trig>>
    /\ resp' = NoResp

\* a mutant of NoRepoReason: the reason of the token branch pasted in
NoRepoReasonPasted == "GitHub access token not found"

NoRepoReason == "No repository found"

\* a mutant of NoTokenReason: the message of the routers' PRECONDITION_FAILED
NoTokenReasonRouter == "GitHub account not connected"

NoTokenReason == "GitHub access token not found"

InvalidRepoReason == "Invalid repository name"

MarkFailedNoRepo(r) == MarkFailed(r, "mark-failed-no-repo", NoRepoReason)

MarkFailedNoToken(r) == MarkFailed(r, "mark-failed-no-token", NoTokenReason)

MarkFailedInvalidRepo(r) == MarkFailed(r, "mark-failed-invalid-repo", InvalidRepoReason)

\* a mutant of AfterGetAccessToken: the full name checked before the token
AfterGetAccessTokenNameFirst(token, repo) ==
    IF ~ValidFullName(repo.fullName) THEN "mark-failed-invalid-repo"
    ELSE IF token = NULL THEN "mark-failed-no-token"
    ELSE "fetch-pr-files"

\* where the handler goes after get-access-token: if (!accessToken), then
\* if (!owner || !repo), then the fetches
AfterGetAccessToken(token, repo) ==
    IF token = NULL THEN "mark-failed-no-token"
    ELSE IF ~ValidFullName(repo.fullName) THEN "mark-failed-invalid-repo"
    ELSE "fetch-pr-files"

\* step "get-access-token", the branch on !accessToken, the split of the
\* stored full name and the branch on !owner || !repo
GetAccessToken(r) ==
    /\ Running(r) /\ job[r].pc = "get-access-token"
    /\ LET token == getGitHubAccessToken(job[r].userId)
           repo == CHOOSE x \in job[r].repository : TRUE IN
       StepReturns(r, [job[r] EXCEPT !.accessToken = token],
                   AfterGetAccessToken(token, repo))
    /\ UNCHANGED <<ai, gh, onDelete, repository, nextRepoId, account, review, nextReviewId,
                   events, trig>>
    /\ resp' = NoResp

\* step "fetch-pr-files": fetchPullRequestFiles returns the files or throws on
\* a response that is not OK
FetchPRFiles(r) ==
    /\ Running(r) /\ job[r].pc = "fetch-pr-files"
    /\ LET j == [job[r] EXCEPT !.github = TRUE] IN
       \/ \E files \in FileLists : StepReturns(r, [j EXCEPT !.files = files], "fetch-pr")
       \/ StepThrows(r, j)
    /\ UNCHANGED <<ai, gh, onDelete, repository, nextRepoId, account, review, nextReviewId,
                   events, trig>>
    /\ resp' = NoResp

\* step "fetch-pr": fetchPullRequest returns the pull request or throws
FetchPR(r) ==
    /\ Running(r) /\ job[r].pc = "fetch-pr"
    /\ LET j == [job[r] EXCEPT !.github = TRUE] IN
       \/ StepReturns(r, [j EXCEPT !.pr = "pr"], "generate-review")
       \/ StepThrows(r, j)
    /\ UNCHANGED <<ai, gh, onDelete, repository, nextRepoId, account, review, nextReviewId,
                   events, trig>>
    /\ resp' = NoResp

\* step "generate-review": reviewCode(pr.title, files).  llmOut keeps what
\* came of the latest chat-completion call: one of LLMOutcomes, with "json"
\* told apart as "rejected" or "validated" by ReviewResultSchema.parse
GenerateReview(r) ==
    /\ Running(r) /\ job[r].pc = "generate-review"
    /\ IF EmptyDiff(job[r].files)
       THEN StepReturns(r, [job[r] EXCEPT !.reviewResult = {DefaultResult}],
                        "save-review-result")
       ELSE \E out \in LLMOutcomes :
              LET j == [job[r] EXCEPT !.llm = job[r].llm + 1, !.llmOut = out] IN
              IF out = "json"
              THEN \E v \in JsonValues :
                     IF ReviewResultSchema(v)
                     THEN StepReturns(r, [j EXCEPT !.reviewResult = {v},
                                                    !.llmOut = "validated"],
                                      "save-review-result")
                     ELSE StepThrows(r, [j EXCEPT !.llmOut = "rejected"])
              ELSE StepThrows(r, j)
    /\ UNCHANGED <<ai, gh, onDelete, repository, nextRepoId, account, review, nextReviewId,
                   events, trig>>
    /\ resp' = NoResp

\* a mutant of CompletedData: the status written without the result
CompletedDataStatusOnly(row, res) == [row EXCEPT !.status = "COMPLETED"]

\* data: { status: "COMPLETED", summary, riskScore, comments }
CompletedData(row, res) ==
    [row EXCEPT !.status = "COMPLETED", !.summary = res.summary,
                !.riskScore = {res.riskScore}, !.comments = {res.comments}]

\* step "save-review-result", then return { success: true, reviewId }
SaveReviewResult(r) ==
    /\ Running(r) /\ job[r].pc = "save-review-result"
    /\ IF CanUpdate(r)
       THEN /\ review' = UpdateReview(r, [x \in DOMAIN review |->
                    CompletedData(review[x], CHOOSE y \in job[r].reviewResult : TRUE)])
            /\ StepReturns(r, job[r], "done")
       ELSE /\ StepThrows(r, job[r])
            /\ UNCHANGED review
    /\ UNCHANGED <<ai, gh, onDelete, repository, nextRepoId, account, nextReviewId,
                   events, trig>>
    /\ resp' = NoResp

\* ---------------------------------------------------- pullRequestRouter
\* A query is followed from request to response in one step, taken between two
\* calls of review.trigger: the tables a call leaves behind at any of its
\* awaits are also the tables after a call that threw at its next await.
\* the three checks that open pullRequest.list: the code thrown, or "ok"
ListCheck(u, id) ==
    IF FindOwnRepository(id, u) = {} THEN "NOT_FOUND"
    ELSE IF getGitHubAccessToken(u) = NULL THEN "PRECONDITION_FAILED"
    ELSE IF ~ValidFullName((CHOOSE r \in FindOwnRepository(id, u) : TRUE).fullName)
         THEN "BAD_REQUEST"
    ELSE "ok"

\* the three checks that open pullRequest.get
GetCheck(u, id) ==
    IF FindOwnRepository(id, u) = {} THEN "NOT_FOUND"
    ELSE IF getGitHubAccessToken(u) = NULL THEN "PRECONDITION_FAILED"
    ELSE IF ~ValidFullName((CHOOSE r \in FindOwnRepository(id, u) : TRUE).fullName)
         THEN "BAD_REQUEST"
    ELSE "ok"

\* a mutant of FilesCheck: the token looked up before the repository
FilesCheckTokenFirst(u, id) ==
    IF getGitHubAccessToken(u) = NULL THEN "PRECONDITION_FAILED"
    ELSE IF FindOwnRepository(id, u) = {} THEN "NOT_FOUND"
    ELSE IF ~ValidFullName((CHOOSE r \in FindOwnRepository(id, u) : TRUE).fullName)
         THEN "BAD_REQUEST"
    ELSE "ok"

\* the three checks that open pullRequest.files
FilesCheck(u, id) ==
    IF FindOwnRepository(id, u) = {} THEN "NOT_FOUND"
    ELSE IF getGitHubAccessToken(u) = NULL THEN "PRECONDITION_FAILED"
    ELSE IF ~ValidFullName((CHOOSE r \in FindOwnRepository(id, u) : TRUE).fullName)
         THEN "BAD_REQUEST"
    ELSE "ok"

\* the review rows of a repository and pull request; createdAt grows with the id
ReviewsOfPR(id, pr) ==
    { r \in DOMAIN review : review[r].repositoryId = id /\ review[r].prNumber = pr }

Max(S) == CHOOSE x \in S : \A y \in S : y <= x
Min(S) == CHOOSE x \in S : \A y \in S : x <= y

\* new Map(existingReviews.map((r) => [r.prNumber, r])) over rows ordered by
\* createdAt desc: a later entry of the same key replaces the earlier one
ReviewMap(id, prs) ==
    { Min(ReviewsOfPR(id, pr)) : pr \in { p \in prs : ReviewsOfPR(id, p) # {} } }

\* findFirst({ where: { repositoryId, prNumber }, orderBy: { createdAt: "desc" } })
FindFirstReview(id, pr) ==
    IF ReviewsOfPR(id, pr) = {} THEN {} ELSE { Max(ReviewsOfPR(id, pr)) }

\* pullRequest.list
PullRequestList(u, id) ==
    /\ trig.pc = "idle"
    /\ IF ListCheck(u, id) # "ok"
       THEN resp' = Thrown("list", u, id, ListCheck(u, id), FALSE)
       ELSE \/ resp' = Thrown("list", u, id, "GITHUB_ERROR", TRUE)
            \/ \E prs \in SUBSET PRNumbers :
                 resp' = [ op |-> "list", user |-> u, repositoryId |-> id, code |-> "ok",
                           prs |-> prs, reviews |-> ReviewMap(id, prs),
                           github |-> TRUE, readReviews |-> TRUE,
                                        reviewId |-> 0, repos |-> {}, connected |-> 0, input |-> <<>> ]
    /\ UNCHANGED <<ai, gh, onDelete, repository, nextRepoId, account, review, nextReviewId,
                   events, job, trig>>

\* pullRequest.get
PullRequestGet(u, id, pr) ==
    /\ trig.pc = "idle"
    /\ IF GetCheck(u, id) # "ok"
       THEN resp' = Thrown("get", u, id, GetCheck(u, id), FALSE)
       ELSE \/ resp' = Thrown("get", u, id, "GITHUB_ERROR", TRUE)
            \/ resp' = [ op |-> "get", user |-> u, repositoryId |-> id, code |-> "ok",
                         prs |-> {pr}, reviews |-> FindFirstReview(id, pr),
                         github |-> TRUE, readReviews |-> TRUE,
                                        reviewId |-> 0, repos |-> {}, connected |-> 0, input |-> <<>> ]
    /\ UNCHANGED <<ai, gh, onDelete, repository, nextRepoId, account, review, nextReviewId,
                   events, job, trig>>

\* pullRequest.files
PullRequestFiles(u, id, pr) ==
    /\ trig.pc = "idle"
    /\ IF FilesCheck(u, id) # "ok"
       THEN resp' = Thrown("files", u, id, FilesCheck(u, id), FALSE)
       ELSE \/ resp' = Thrown("files", u, id, "GITHUB_ERROR", TRUE)
            \/ resp' = [ op |-> "files", user |-> u, repositoryId |-> id, code |-> "ok",
                         prs |-> {pr}, reviews |-> {},
                         github |-> TRUE, readReviews |-> FALSE,
                                        reviewId |-> 0, repos |-> {}, connected |-> 0, input |-> <<>> ]
    /\ UNCHANGED <<ai, gh, onDelete, repository, nextRepoId, account, review, nextReviewId,
                   events, job, trig>>

\* ------------------------------------------- repositoryRouter (queries)
\* repository.list: findMany({ where: { userId: ctx.user.id } })
RepositoryList(u) ==
    /\ trig.pc = "idle"
    /\ resp' = [ op |-> "repository.list", user |-> u, repositoryId |-> 0,
                 code |-> "ok", prs |-> {}, reviews |-> {},
                 github |-> FALSE, readReviews |-> FALSE,
                 reviewId |-> 0, repos |-> { r.id : r \in { x \in repository : x.userId = u } },
                 connected |-> 0, input |-> <<>> ]
    /\ UNCHANGED <<ai, gh, onDelete, repository, nextRepoId, account, review, nextReviewId,
                   events, job, trig>>

\* repository.fetchFromGithub: the token check, then fetchGitHubRepos
FetchFromGithub(u) ==
    /\ trig.pc = "idle"
    /\ IF getGitHubAccessToken(u) = NULL
       THEN resp' = Thrown("repository.fetchFromGithub", u, 0, "PRECONDITION_FAILED", FALSE)
       ELSE \/ resp' = Thrown("repository.fetchFromGithub", u, 0, "GITHUB_ERROR", TRUE)
            \/ resp' = [ op |-> "repository.fetchFromGithub", user |-> u,
                         repositoryId |-> 0, code |-> "ok", prs |-> {}, reviews |-> {},
                         github |-> TRUE, readReviews |-> FALSE,
                         reviewId |-> 0, repos |-> {}, connected |-> 0, input |-> <<>> ]
    /\ UNCHANGED <<ai, gh, onDelete, repository, nextRepoId, account, review, nextReviewId,
                   events, job, trig>>

\* ------------------------------------------------ reviewRouter (queries)
\* a mutant of FindOwnReview: the userId of the where clause left out
FindAnyReview(id, u) == { r \in DOMAIN review : r = id }

\* db.review.findUnique({ where: { id, userId: ctx.user.id } }) of review.get
FindOwnReview(id, u) == { r \in DOMAIN review : r = id /\ review[r].userId = u }

\* where: { userId, ...(repositoryId && { repositoryId }) } of review.list;
\* no repositoryId (or "") is written 0 and leaves the filter out
ListWhere(u, repositoryId) ==
    { r \in DOMAIN review :
        /\ review[r].userId = u
        /\ repositoryId # 0 => review[r].repositoryId = repositoryId }

\* orderBy: { createdAt: "desc" }, take: limit: the `limit` newest rows of S
Take(S, limit) == { r \in S : Cardinality({ x \in S : x > r }) < limit }

\* the values of input.limit the model calls review.list with:
\* z.number().min(1).max(50).default(20)
Limits == {1, 20}

\* findFirst({ where: { repositoryId, prNumber, userId }, orderBy: desc })
FindLatestOwnReview(u, id, pr) ==
    LET S == { r \in ReviewsOfPR(id, pr) : review[r].userId = u } IN
    IF S = {} THEN {} ELSE {Max(S)}

\* the response of a review query that returns the rows `rows`
ReviewRows(op, u, repositoryId, reviewId, rows) ==
    [ op |-> op, user |-> u, repositoryId |-> repositoryId, code |-> "ok",
      prs |-> {}, reviews |-> rows, github |-> FALSE, readReviews |-> TRUE,
      reviewId |-> reviewId, repos |-> {}, connected |-> 0, input |-> <<>> ]

\* review.get
ReviewGet(u, id) ==
    /\ trig.pc = "idle"
    /\ resp' = IF FindOwnReview(id, u) = {}
               THEN [Thrown("review.get", u, 0, "NOT_FOUND", FALSE) EXCEPT !.reviewId = id]
               ELSE ReviewRows("review.get", u, 0, id, FindOwnReview(id, u))
    /\ UNCHANGED <<ai, gh, onDelete, repository, nextRepoId, account, review, nextReviewId,
                   events, job, trig>>

\* review.list
ReviewList(u, repositoryId, limit) ==
    /\ trig.pc = "idle"
    /\ resp' = ReviewRows("review.list", u, repositoryId, 0,
                          Take(ListWhere(u, repositoryId), limit))
    /\ UNCHANGED <<ai, gh, onDelete, repository, nextRepoId, account, review, nextReviewId,
                   events, job, trig>>

\* review.getLatestForPR: the row, or null
ReviewGetLatestForPR(u, id, pr) ==
    /\ trig.pc = "idle"
    /\ resp' = [ReviewRows("review.getLatestForPR", u, id, 0, FindLatestOwnReview(u, id, pr))
                  EXCEPT !.prs = {pr}]
    /\ UNCHANGED <<ai, gh, onDelete, repository, nextRepoId, account, review, nextReviewId,
                   events, job, trig>>

\* ------------------------------------------------------------- AI service
\* reviewCode is called with `files`, in a process where OPENAI_API_KEY is set
\* or not; the model follows one call, as calls share nothing but the client
CallReviewCode(files, key) ==
    /\ ai.pc = "idle"
    /\ ai' = [NoReview EXCEPT !.pc = "called", !.files = files, !.apiKey = key]
    /\ UNCHANGED <<gh, onDelete, repository, nextRepoId, account, review, nextReviewId,
                   events, job, trig, resp>>

\* reviewCode: the default result for a blank diff; else getOpenAIClient, which
\* throws without the key; else one chat completion with the diff in the user
\* prompt, whose answer is returned when it is JSON that ReviewResultSchema
\* accepts, and thrown on otherwise
ReviewCode ==
    /\ ai.pc = "called"
    /\ IF EmptyDiff(ai.files)
       THEN ai' = [ai EXCEPT !.pc = "returned", !.result = {DefaultResult}]
       ELSE IF ~ai.apiKey
       THEN ai' = [ai EXCEPT !.pc = "thrown"]
       ELSE \E out \in LLMOutcomes :
              LET sent == [ai EXCEPT !.llm = 1, !.prompt = DiffContent(ai.files)] IN
              IF out = "json"
              THEN \E v \in JsonValues :
                     IF ReviewResultSchema(v)
                     THEN ai' = [sent EXCEPT !.pc = "returned", !.result = {v}]
                     ELSE ai' = [sent EXCEPT !.pc = "thrown"]
              ELSE ai' = [sent EXCEPT !.pc = "thrown"]
    /\ UNCHANGED <<gh, onDelete, repository, nextRepoId, account, review, nextReviewId,
                   events, job, trig, resp>>

\* ---------------------------------------------------------- GitHub client
\* The list GitHub holds for a call (the repositories of the user, the files or
\* the pull requests of a repository) is written 1..total, in GitHub's order.
Items(total) == [i \in 1..total |-> i]

\* the body of the response to ?per_page=perPage&page=page
Page(total, perPage, page) ==
    LET lo == (page - 1) * perPage + 1
        hi == IF page * perPage < total THEN page * perPage ELSE total IN
    IF lo > total THEN <<>> ELSE SubSeq(Items(total), lo, hi)

\* a mutant of ShortPage: <= written for <
ShortPageOrFull(data) == Len(data) <= PerPage

\* if (data.length < perPage) break
ShortPage(data) == Len(data) < PerPage

ClientFunctions == {"fetchGitHubRepos", "fetchPullRequestFiles", "fetchPullRequests"}

\* a client function is called: page = 1, an empty array
CallGitHub(fn, total) ==
    /\ gh.pc \in {"idle", "done", "thrown"}
    /\ gh' = [ fn |-> fn, total |-> total, page |-> 1, acc |-> <<>>, pc |-> "loop",
               result |-> <<>> ]
    /\ UNCHANGED <<ai, onDelete, repository, nextRepoId, account, review, nextReviewId,
                   events, job, trig, resp>>

\* one turn of while (true): fetch the page; throw on a response that is not
\* OK; push the page; return the array after a short page, or page++
PageLoop(fn) ==
    /\ gh.pc = "loop" /\ gh.fn = fn
    /\ \E ok \in BOOLEAN :
         IF ~ok THEN gh' = [gh EXCEPT !.pc = "thrown"]
         ELSE LET data == Page(gh.total, PerPage, gh.page) IN
              IF ShortPage(data)
              THEN gh' = [gh EXCEPT !.acc = gh.acc \o data, !.pc = "done",
                                    !.result = gh.acc \o data]
              ELSE gh' = [gh EXCEPT !.acc = gh.acc \o data, !.page = gh.page + 1]
    /\ UNCHANGED <<ai, onDelete, repository, nextRepoId, account, review, nextReviewId,
                   events, job, trig, resp>>

\* fetchGitHubRepos
FetchGitHubRepos == PageLoop("fetchGitHubRepos")

\* fetchPullRequestFiles
FetchPullRequestFiles == PageLoop("fetchPullRequestFiles")

\* fetchPullRequests: one request with per_page=30 and no page, then one
\* fetchPullRequest for every pull request of the response (Promise.all)
FetchPullRequests ==
    /\ gh.pc = "loop" /\ gh.fn = "fetchPullRequests"
    /\ LET pulls == Page(gh.total, PullsPerPage, 1) IN
       \E ok \in BOOLEAN, detailed \in BOOLEAN :
         IF ok /\ (detailed \/ Len(pulls) = 0)
         THEN gh' = [gh EXCEPT !.acc = pulls, !.pc = "done", !.result = pulls]
         ELSE gh' = [gh EXCEPT !.pc = "thrown"]
    /\ UNCHANGED <<ai, onDelete, repository, nextRepoId, account, review, nextReviewId,
                   events, job, trig, resp>>

\* ---------------------------------------------------------- specification
\* connecting and disconnecting repositories, linking the GitHub account,
\* by the users U on the GitHub repositories G, with `repos` repository ids
DbOps(U, G, repos) ==
    \/ \E u \in U : LinkGitHub(u)
    \/ \E u \in U : UnlinkGitHub(u)
    \/ \E u \in U, g \in G, fn \in FullNames :
         Connect(u, <<RepoInput(g, "r", fn, FALSE, "url")>>, repos, FALSE)
    \/ \E u \in U, id \in 1..repos : Disconnect(u, id, FALSE)

\* review.trigger, await by await, called by the users U
TriggerOps(U, repos, reviews) ==
    \/ \E u \in U, id \in 1..repos, pr \in PRNumbers :
         TriggerFindRepository(u, id, pr, reviews)
    \/ \E u \in U : TriggerGetToken(u)
    \/ \E u \in U : TriggerFetchPR(u)
    \/ \E u \in U : TriggerCreate(u)
    \/ \E u \in U : TriggerSend(u)

\* reviewPR, step by step, for the events of the reviews R
JobOps(R) ==
    \/ \E r \in R : UpdateStatusProcessing(r)
    \/ \E r \in R : GetRepository(r)
    \/ \E r \in R : MarkFailedNoRepo(r)
    \/ \E r \in R : GetAccessToken(r)
    \/ \E r \in R : MarkFailedNoToken(r)
    \/ \E r \in R : MarkFailedInvalidRepo(r)
    \/ \E r \in R : FetchPRFiles(r)
    \/ \E r \in R : FetchPR(r)
    \/ \E r \in R : GenerateReview(r)
    \/ \E r \in R : SaveReviewResult(r)

\* the pullRequest queries, called by the users U
QueryOps(U, repos) ==
    \/ \E u \in U, id \in 1..repos : PullRequestList(u, id)
    \/ \E u \in U, id \in 1..repos, pr \in PRNumbers : PullRequestGet(u, id, pr)
    \/ \E u \in U, id \in 1..repos, pr \in PRNumbers : PullRequestFiles(u, id, pr)

\* The review pipeline: one user connects, renames and disconnects one GitHub
\* repository, links and unlinks the account and triggers reviews, while the
\* jobs of the reviews run.  A job reads the tables by repository id and by
\* user id only, so one user and one GitHub repository give it every answer
\* a lookup can have.
Next ==
    \/ DbOps({"alice"}, {11}, MaxRepos)
    \/ TriggerOps({"alice"}, MaxRepos, MaxReviews)
    \/ JobOps(ReviewIds)

Spec == Init /\ [][Next]_vars

\* The routers: two users, two GitHub repositories, review.trigger and the
\* queries.  The queries read the repository and account tables and the
\* repositoryId, prNumber and creation order of review rows, none of which a
\* job step writes.
NextApi ==
    \/ DbOps(Users, GithubIds, MaxApiRepos)
    \/ TriggerOps(Users, MaxApiRepos, MaxApiReviews)
    \/ QueryOps(Users, MaxApiRepos)

ApiSpec == Init /\ [][NextApi]_vars

\* Two concurrent jobs: one user links and unlinks the account, connects one
\* repository and triggers two reviews of the same pull request, one call
\* after the other, while the jobs of the two reviews run in any interleaving.
PairReviews == {1, 2}    \* the ids of the two reviews

NextPair ==
    \/ LinkGitHub("alice")
    \/ UnlinkGitHub("alice")
    \/ Connect("alice", <<RepoInput(11, "r", <<"o", "/", "r">>, FALSE, "url")>>,
               MaxRepos, FALSE)
    \/ TriggerOps({"alice"}, MaxRepos, Cardinality(PairReviews))
    \/ JobOps(PairReviews)

PairSpec == Init /\ [][NextPair]_vars

\* The precondition checks: two users connect, rename and disconnect one
\* GitHub repository, link and unlink their accounts, and call review.trigger
\* and the pullRequest queries.
NextCheck ==
    \/ DbOps(Users, {11}, MaxCheckRepos)
    \/ TriggerOps(Users, MaxCheckRepos, MaxCheckReviews)
    \/ QueryOps(Users, MaxCheckRepos)

CheckSpec == Init /\ [][NextCheck]_vars

\* the elements of input.repos the model connects: one GitHub repository as
\* GitHub describes it before and after it is renamed and made private, and
\* a second one
RepoInputs ==
    { RepoInput(11, "r", <<"o", "/", "r">>, FALSE, "url"),
      RepoInput(11, "s", <<"o", "/">>, TRUE, "url2"),
      RepoInput(12, "r", <<"o", "/", "r">>, FALSE, "url") }

\* the arrays of at most n of them
Inputs(n) == UNION { [1..k -> RepoInputs] : k \in 0..n }

\* any sequence of repository.connect calls by two users; no row is deleted,
\* so the table has one row for each GitHub repository at most
NextConnect ==
    \E u \in Users, input \in Inputs(MaxConnectInput) :
        Connect(u, input, Cardinality(GithubIds), TRUE)

ConnectSpec == Init /\ [][NextConnect]_vars

\* the review queries, called by the users U
ReviewQueryOps(U, repos, reviews) ==
    \/ \E u \in U, id \in 1..reviews : ReviewGet(u, id)
    \/ \E u \in U, id \in 0..repos, limit \in Limits : ReviewList(u, id, limit)
    \/ \E u \in U, id \in 1..repos, pr \in PRNumbers : ReviewGetLatestForPR(u, id, pr)

\* The review queries: two users connect and disconnect one GitHub
\* repository, trigger reviews and query them.  The queries read the userId,
\* repositoryId, prNumber and creation order of review rows, none of which a
\* job step writes.
NextOwn ==
    \/ DbOps(Users, {11}, MaxOwnRepos)
    \/ TriggerOps(Users, MaxOwnRepos, MaxOwnReviews)
    \/ ReviewQueryOps(Users, MaxOwnRepos, MaxOwnReviews)

OwnSpec == Init /\ [][NextOwn]_vars

\* The middleware: requests arrive with the session of alice or with none, on
\* every procedure of the three routers.  bob has no session.
SignedIn == {"alice"}

NextAuth ==
    \/ \E u \in SignedIn : LinkGitHub(u)
    \/ \E u \in SignedIn : UnlinkGitHub(u)
    \/ \E s \in Sessions(SignedIn), op \in Operations : ~HasUser(s) /\ Unauthorized(op)
    \/ \E s \in Sessions(SignedIn), fn \in FullNames :
         HasUser(s) /\ Connect(CtxUser(s), <<RepoInput(11, "r", fn, FALSE, "url")>>,
                               MaxAuthRepos, TRUE)
    \/ \E s \in Sessions(SignedIn), id \in 1..MaxAuthRepos :
         HasUser(s) /\ Disconnect(CtxUser(s), id, TRUE)
    \/ \E s \in Sessions(SignedIn) : HasUser(s) /\ RepositoryList(CtxUser(s))
    \/ \E s \in Sessions(SignedIn) : HasUser(s) /\ FetchFromGithub(CtxUser(s))
    \/ \E s \in Sessions(SignedIn), id \in 1..MaxAuthRepos, pr \in PRNumbers :
         HasUser(s) /\ TriggerFindRepository(CtxUser(s), id, pr, MaxAuthReviews)
    \/ \E u \in SignedIn \cup {NULL} : TriggerGetToken(u)
    \/ \E u \in SignedIn \cup {NULL} : TriggerFetchPR(u)
    \/ \E u \in SignedIn \cup {NULL} : TriggerCreate(u)
    \/ \E u \in SignedIn \cup {NULL} : TriggerSend(u)
    \/ \E s \in Sessions(SignedIn), id \in 1..MaxAuthRepos :
         HasUser(s) /\ PullRequestList(CtxUser(s), id)
    \/ \E s \in Sessions(SignedIn), id \in 1..MaxAuthRepos, pr \in PRNumbers :
         HasUser(s) /\ PullRequestGet(CtxUser(s), id, pr)
    \/ \E s \in Sessions(SignedIn), id \in 1..MaxAuthRepos, pr \in PRNumbers :
         HasUser(s) /\ PullRequestFiles(CtxUser(s), id, pr)
    \/ \E s \in Sessions(SignedIn), id \in 1..MaxAuthReviews :
         HasUser(s) /\ ReviewGet(CtxUser(s), id)
    \/ \E s \in Sessions(SignedIn), id \in 0..MaxAuthRepos, limit \in Limits :
         HasUser(s) /\ ReviewList(CtxUser(s), id, limit)
    \/ \E s \in Sessions(SignedIn), id \in 1..MaxAuthRepos, pr \in PRNumbers :
         HasUser(s) /\ ReviewGetLatestForPR(CtxUser(s), id, pr)

AuthSpec == Init /\ [][NextAuth]_vars

\* Connect and disconnect: two users connect two GitHub repositories and
\* disconnect them, link their accounts, trigger reviews, and list their
\* repositories and the pull requests of a repository.
NextDisconnect ==
    \/ \E u \in Users : LinkGitHub(u)
    \/ \E u \in Users, g \in GithubIds :
         Connect(u, <<RepoInput(g, "r", <<"o", "/", "r">>, FALSE, "url")>>,
                 MaxDiscRepos, FALSE)
    \/ \E u \in Users, id \in 1..MaxDiscRepos : Disconnect(u, id, TRUE)
    \/ TriggerOps(Users, MaxDiscRepos, MaxDiscReviews)
    \/ \E u \in Users : RepositoryList(u)
    \/ \E u \in Users, id \in 1..MaxDiscRepos : PullRequestList(u, id)

DisconnectSpec == Init /\ [][NextDisconnect]_vars

\* The AI service: reviewCode is called with every array of at most MaxFiles
\* files, with and without the API key, while one user links and unlinks the
\* account, connects a repository and triggers one review, whose job runs.
TheReview == {1}    \* the id of the review

NextAi ==
    \/ \E files \in FileChangeLists(MaxFiles), key \in BOOLEAN : CallReviewCode(files, key)
    \/ ReviewCode
    \/ LinkGitHub("alice")
    \/ UnlinkGitHub("alice")
    \/ Connect("alice", <<RepoInput(11, "r", <<"o", "/", "r">>, FALSE, "url")>>,
               Cardinality(TheReview), FALSE)
    \/ TriggerOps({"alice"}, Cardinality(TheReview), Cardinality(TheReview))
    \/ JobOps(TheReview)

AiSpec == Init /\ [][NextAi]_vars

\* A pull request reviewed twice: one user links the account, connects a
\* repository, triggers two reviews and calls pullRequest.list and get.
NextList ==
    \/ LinkGitHub("alice")
    \/ Connect("alice", <<RepoInput(11, "r", <<"o", "/", "r">>, FALSE, "url")>>,
               MaxRepos, FALSE)
    \/ TriggerOps({"alice"}, MaxRepos, Cardinality(PairReviews))
    \/ \E id \in 1..MaxRepos : PullRequestList("alice", id)
    \/ \E id \in 1..MaxRepos, pr \in PRNumbers : PullRequestGet("alice", id, pr)

ListSpec == Init /\ [][NextList]_vars

\* a review is between the first check of its review.trigger call and the
\* last lookup of its job
InWindow ==
    \/ trig.pc # "idle"
    \/ \E r \in DOMAIN job :
         job[r].pc \in {"update-status-processing", "get-repository", "get-access-token"}

\* The pipeline left alone: as Next, but no repository is disconnected or
\* connected again and no account is unlinked while a review is between its
\* trigger's first check and its job's last lookup.  The three mark-failed
\* steps are left out: the runs of this specification never come to one.
NextQuiet ==
    \/ LinkGitHub("alice")
    \/ ~InWindow /\ UnlinkGitHub("alice")
    \/ \E fn \in FullNames :
         ~InWindow /\ Connect("alice", <<RepoInput(11, "r", fn, FALSE, "url")>>,
                              MaxRepos, FALSE)
    \/ \E id \in 1..MaxRepos : ~InWindow /\ Disconnect("alice", id, FALSE)
    \/ TriggerOps({"alice"}, MaxRepos, MaxReviews)
    \/ \E r \in ReviewIds : UpdateStatusProcessing(r)
    \/ \E r \in ReviewIds : GetRepository(r)
    \/ \E r \in ReviewIds : GetAccessToken(r)
    \/ \E r \in ReviewIds : FetchPRFiles(r)
    \/ \E r \in ReviewIds : FetchPR(r)
    \/ \E r \in ReviewIds : GenerateReview(r)
    \/ \E r \in ReviewIds : SaveReviewResult(r)

QuietSpec == Init /\ [][NextQuiet]_vars

\* The GitHub client: its three listing functions, called with a token that
\* GitHub accepts or not, on lists of every length up to MaxItems.
NextGitHub ==
    \/ \E fn \in ClientFunctions, total \in 0..MaxItems : CallGitHub(fn, total)
    \/ FetchGitHubRepos
    \/ FetchPullRequestFiles
    \/ FetchPullRequests

GitHubSpec == Init /\ [][NextGitHub]_vars

\* an await of a call in progress resolves: the loop goes on
GitHubLive ==
    /\ Init /\ [][NextGitHub]_vars
    /\ WF_vars(FetchGitHubRepos) /\ WF_vars(FetchPullRequestFiles)
    /\ WF_vars(FetchPullRequests)

\* ================================================================ claims
\* the run of review r has ended: the handler returned, or the runner gave up
Ended(r) == r \in DOMAIN job /\ job[r].pc \in {"done", "failed"}

\* C1: a call of review.trigger that passes its checks and gets the pull
\* request creates exactly one review row, with status PENDING and before it
\* sends the event; the event it sends and the id it returns are those of that
\* row; and a run of the job has the row's id, finds the row PENDING at its
\* first step and no run exists for a row before its event is sent.
C1_TriggerCreatesOnePendingRow ==
    [][ /\ (trig.pc = "create" /\ trig'.pc = "send") =>
             /\ nextReviewId \notin DOMAIN review
             /\ DOMAIN review' = DOMAIN review \cup {nextReviewId}
             /\ review'[nextReviewId].status = "PENDING"
             /\ \A r \in DOMAIN review : review'[r] = review[r]
             /\ trig.created = {} /\ trig'.created = {nextReviewId}
             /\ nextReviewId \notin DOMAIN job'
             /\ events' = events
        /\ (events' # events) =>
             /\ trig.pc = "send" /\ Cardinality(trig.created) = 1
             /\ \E e \in events' \ events :
                  /\ events' = events \cup {e}
                  /\ trig.created = {e.reviewId}
                  /\ e.reviewId < nextReviewId
                  /\ e.reviewId \notin DOMAIN job
                  /\ job'[e.reviewId].pc = "update-status-processing"
                  /\ job'[e.reviewId].steps = {}
                  /\ resp'.code = "ok" /\ resp'.reviews = {e.reviewId}
        /\ (resp'.op = "trigger" /\ resp'.code = "ok") => events' # events
        /\ \A r \in DOMAIN job :
             (job'[r] # job[r] /\ job[r].steps = {} /\ r \in DOMAIN review)
                => review[r].status = "PENDING"
        /\ DOMAIN job' \subseteq 1..(nextReviewId' - 1)
      ]_vars

\* C1 witness: a call has just returned the id of a PENDING row whose run has
\* not taken a step
C1_Witness ==
    /\ resp.op = "trigger" /\ resp.code = "ok"
    /\ \E r \in resp.reviews :
         /\ r \in DOMAIN review /\ review[r].status = "PENDING"
         /\ job[r].pc = "update-status-processing" /\ job[r].steps = {}

\* C2: every review ends COMPLETED or FAILED: once the run of a review has
\* ended, by the handler returning or by the runner giving up after the last
\* retry, the review is not PENDING or PROCESSING.
C2_EveryReviewEndsCompletedOrFailed ==
    \A r \in DOMAIN review : Ended(r) => review[r].status \in Terminal

\* the steps that call GitHub or the AI service
UpstreamSteps == {"fetch-pr-files", "fetch-pr", "generate-review"}

\* C3: when an upstream call throws on every attempt, the review is FAILED
\* with a non-empty error.
C3_UpstreamFailureIsRecorded ==
    \A r \in DOMAIN review \cap DOMAIN job :
        (job[r].pc = "failed" /\ job[r].thrownAt \in UpstreamSteps)
            => (review[r].status = "FAILED" /\ review[r].error \notin {NULL, ""})

\* the order of the statuses
Rank(st) == CASE st = "PENDING" -> 0 [] st = "PROCESSING" -> 1 [] OTHER -> 2

\* C4: no step moves the status of a review row to an earlier status.
C4_StatusMovesForward ==
    [][ \A r \in DOMAIN review \cap DOMAIN review' :
          Rank(review'[r].status) >= Rank(review[r].status) ]_vars

\* C4 witness: a review is COMPLETED after its run retried the AI service step
C4_Witness ==
    \E r \in DOMAIN review \cap DOMAIN job :
        /\ review[r].status = "COMPLETED" /\ job[r].pc = "done"
        /\ job[r].llm > 1

\* C5: once a review is COMPLETED or FAILED its status does not change.
C5_OneTerminalOutcome ==
    [][ \A r \in DOMAIN review \cap DOMAIN review' :
          review[r].status \in Terminal => review'[r].status = review[r].status ]_vars

\* C5 witness: a review is FAILED, its run has returned, and the token it
\* missed is stored again
C5_Witness ==
    \E r \in DOMAIN review \cap DOMAIN job :
        /\ review[r].status = "FAILED" /\ job[r].pc = "done"
        /\ job[r].accessToken = NULL /\ job[r].repository # {}
        /\ getGitHubAccessToken(job[r].userId) # NULL

\* C6: every COMPLETED review has a riskScore, between 0 and 100.
C6_CompletedRiskScoreInRange ==
    \A r \in DOMAIN review :
        review[r].status = "COMPLETED" =>
            /\ Cardinality(review[r].riskScore) = 1
            /\ \A x \in review[r].riskScore : 0 <= x /\ x <= 100

\* C6 witness: a COMPLETED review with the highest score, from an LLM answer
C6_Witness ==
    \E r \in DOMAIN review \cap DOMAIN job :
        /\ review[r].status = "COMPLETED" /\ review[r].riskScore = {100}
        /\ job[r].llm >= 1

\* the run of r has ended after a repository lookup that returned no row
EndedWithoutRepo(r) ==
    Ended(r) /\ "get-repository" \in job[r].steps /\ job[r].repository = {}

\* C7: a run whose repository lookup returns no row leaves the review FAILED
\* with "No repository found" and calls neither GitHub nor the LLM.
C7_NoRepositoryFound ==
    \A r \in DOMAIN job :
        EndedWithoutRepo(r) =>
            /\ r \in DOMAIN review =>
                 (review[r].status = "FAILED" /\ review[r].error = "No repository found")
            /\ ~job[r].github /\ job[r].llm = 0
            /\ job[r].steps \cap UpstreamSteps = {}

\* C7 witness: such a run has returned and its review row is there
C7_Witness ==
    \E r \in DOMAIN job \cap DOMAIN review :
        EndedWithoutRepo(r) /\ job[r].pc = "done" /\ review[r].status = "FAILED"

\* the run of r has ended after a repository lookup that returned a row and a
\* token lookup that returned nothing
EndedWithoutToken(r) ==
    /\ Ended(r) /\ "get-access-token" \in job[r].steps
    /\ job[r].repository # {} /\ job[r].accessToken = NULL

\* C8: a run that finds the repository and no token leaves the review FAILED
\* with "GitHub access token not found" and calls neither GitHub nor the LLM.
C8_NoAccessToken ==
    \A r \in DOMAIN job :
        EndedWithoutToken(r) =>
            /\ r \in DOMAIN review =>
                 /\ review[r].status = "FAILED"
                 /\ review[r].error = "GitHub access token not found"
            /\ ~job[r].github /\ job[r].llm = 0
            /\ job[r].steps \cap UpstreamSteps = {}

\* C8 witness
C8_Witness ==
    \E r \in DOMAIN job \cap DOMAIN review :
        EndedWithoutToken(r) /\ job[r].pc = "done" /\ review[r].status = "FAILED"

\* the full name has no first "/" with a character before it and a character
\* other than "/" after it: no non-empty owner and repository name
NoOwnerOrRepo(fn) ==
    ~ \E i \in 2..(Len(fn) - 1) :
          /\ fn[i] = "/" /\ fn[i + 1] # "/"
          /\ \A k \in 1..(i - 1) : fn[k] # "/"

\* the run of r has ended after it found the repository and the token, with a
\* stored full name that has no owner or no repository name
EndedWithInvalidName(r) ==
    /\ Ended(r) /\ "get-access-token" \in job[r].steps
    /\ job[r].accessToken # NULL
    /\ \E repo \in job[r].repository : NoOwnerOrRepo(repo.fullName)

\* C9: a run that finds the repository and the token and cannot split the full
\* name leaves the review FAILED with "Invalid repository name", before any
\* GitHub call.
C9_InvalidRepositoryName ==
    \A r \in DOMAIN job :
        EndedWithInvalidName(r) =>
            /\ r \in DOMAIN review =>
                 (review[r].status = "FAILED" /\ review[r].error = "Invalid repository name")
            /\ ~job[r].github /\ job[r].llm = 0

\* C9 witness
C9_Witness ==
    \E r \in DOMAIN job \cap DOMAIN review :
        EndedWithInvalidName(r) /\ job[r].pc = "done" /\ review[r].status = "FAILED"

\* the caller of the latest request owns no repository row with the id it gave
NotOwnRepository == ~ \E row \in repository : row.id = resp.repositoryId /\ row.userId = resp.user

\* C10: pullRequest.list, get and files with the id of a repository the caller
\* does not own throw NOT_FOUND, return nothing, call GitHub for nothing and
\* read no review row.
C10_ForeignRepositoryIsNotFound ==
    (resp.op \in {"list", "get", "files"} /\ NotOwnRepository) =>
        /\ resp.code = "NOT_FOUND"
        /\ resp.prs = {} /\ resp.reviews = {}
        /\ ~resp.github /\ ~resp.readReviews

\* C10 witness: pullRequest.list refused for the repository of another user,
\* which has a review
C10_Witness ==
    /\ resp.op = "list" /\ resp.code = "NOT_FOUND"
    /\ \E row \in repository :
         /\ row.id = resp.repositoryId /\ row.userId # resp.user
         /\ ReviewsOfRepo(row.id) # {}

\* a request refused by the middleware carries no data
NoData(r) ==
    /\ r.prs = {} /\ r.reviews = {} /\ r.repos = {} /\ r.connected = 0
    /\ ~r.github /\ ~r.readReviews

\* C11: a request without a session user is answered UNAUTHORIZED with no data
\* and changes no table, event, job or call in progress; every row, event,
\* call and response of a handler carries the user of a session.
C11_NoSessionIsUnauthorized ==
    /\ [](/\ \A row \in repository : row.userId \in SignedIn
          /\ \A r \in DOMAIN review : review[r].userId \in SignedIn
          /\ \A e \in events : e.userId \in SignedIn
          /\ trig.pc # "idle" => trig.user \in SignedIn
          /\ resp.op # NULL =>
               /\ resp.user \in SignedIn \cup {NULL}
               /\ resp.user = NULL <=> resp.code = "UNAUTHORIZED"
               /\ resp.user = NULL => NoData(resp))
    /\ [][ resp'.code = "UNAUTHORIZED" =>
             UNCHANGED <<repository, nextRepoId, account, review, nextReviewId,
                         events, job, trig>> ]_vars

\* C11 witness: review.trigger is refused for want of a session while a
\* repository is connected and a token stored
C11_Witness ==
    /\ resp.op = "trigger" /\ resp.code = "UNAUTHORIZED"
    /\ repository # {} /\ account # {}

\* the rows of Review that belong to user u
ReviewsOfUser(u) == { r \in DOMAIN review : review[r].userId = u }

\* C12: review.get throws NOT_FOUND exactly when no review of the caller has
\* the id, and returns that review otherwise; review.list returns reviews of
\* the caller only; review.getLatestForPR returns a review of the caller, and
\* null exactly when the caller has none for the repository and PR.
C12_OnlyOwnReviews ==
    /\ resp.op \in {"review.get", "review.list", "review.getLatestForPR"} =>
         resp.reviews \subseteq ReviewsOfUser(resp.user)
    /\ resp.op = "review.get" =>
         IF resp.reviewId \in ReviewsOfUser(resp.user)
         THEN resp.code = "ok" /\ resp.reviews = {resp.reviewId}
         ELSE resp.code = "NOT_FOUND" /\ resp.reviews = {}
    /\ resp.op = "review.getLatestForPR" =>
         (resp.reviews = {} <=>
            ~ \E r \in ReviewsOfUser(resp.user) :
                /\ review[r].repositoryId = resp.repositoryId
                /\ review[r].prNumber \in resp.prs)

\* C12 witness: review.get refused for the review of another user
C12_Witness ==
    /\ resp.op = "review.get" /\ resp.code = "NOT_FOUND"
    /\ resp.reviewId \in DOMAIN review
    /\ review[resp.reviewId].userId # resp.user

\* C13: every successful review.trigger adds a row with an id no other row has
\* and an event for that id, one run per event; a step that changes a review
\* row is a step of the run of that row's id and changes no other row and no
\* other run.
C13_ReviewsAreIndependent ==
    /\ [](/\ \A e1, e2 \in events : e1.reviewId = e2.reviewId => e1 = e2
          /\ DOMAIN job = { e.reviewId : e \in events }
          /\ Cardinality(events) = Cardinality(DOMAIN job))
    /\ [][ /\ \A r \in DOMAIN review \cap DOMAIN review' :
                review'[r] # review[r] =>
                  /\ r \in DOMAIN job /\ job'[r] # job[r]
                  /\ \A q \in DOMAIN job \ {r} : job'[q] = job[q]
                  /\ \A q \in (DOMAIN review \cap DOMAIN review') \ {r} :
                       review'[q] = review[q]
           /\ DOMAIN review' # DOMAIN review =>
                /\ \E id \in DOMAIN review' \ DOMAIN review :
                     DOMAIN review' = DOMAIN review \cup {id}
                /\ \A q \in DOMAIN review : review'[q] = review[q]
           /\ (resp'.op = "trigger" /\ resp'.code = "ok") =>
                /\ Cardinality(events') = Cardinality(events) + 1
                /\ resp'.reviews \cap { e.reviewId : e \in events } = {}
                /\ resp'.reviews \subseteq DOMAIN review
         ]_vars

\* C13 witness: two reviews of the same repository, pull request and user have
\* both ended, one COMPLETED after a retried AI call and one FAILED
C13_Witness ==
    \E r, q \in DOMAIN review \cap DOMAIN job :
        /\ r # q
        /\ review[r].repositoryId = review[q].repositoryId
        /\ review[r].prNumber = review[q].prNumber
        /\ review[r].userId = review[q].userId
        /\ job[r].pc = "done" /\ job[q].pc = "done"
        /\ review[r].status = "COMPLETED" /\ job[r].llm > 1
        /\ review[q].status = "FAILED"

NoPatch(files) == \A i \in 1..Len(files) : files[i].patch \in {NULL, ""}

Retried(r) ==
    /\ r \in DOMAIN job /\ r \in DOMAIN job'
    /\ job'[r].attempts = job[r].attempts + 1

\* C15 as stated: after a step throws, the run starts again from its first step,
\* setting status PROCESSING.
C15_RetryStartsFromTheBeginning ==
    [][ \A r \in DOMAIN job :
          Retried(r) => job'[r].pc = "update-status-processing" ]_vars

\* C15 amended: after a step throws, the runner runs that same step again and
\* keeps the results of the steps that returned, which are not run again; a
\* step is tried 3 times at most (2 retries); after the last one the run has
\* failed and no step of it is executed again.
C15_FailedStepIsRetried ==
    /\ [](\A r \in DOMAIN job :
            /\ job[r].attempts <= 2
            /\ job[r].pc \notin job[r].steps)
    /\ [][ \A r \in DOMAIN job \cap DOMAIN job' :
             /\ Retried(r) =>
                  /\ job'[r].pc = job[r].pc /\ job'[r].steps = job[r].steps
                  /\ r \in DOMAIN review \cap DOMAIN review' =>
                       review'[r] = review[r]
             /\ job[r].steps \subseteq job'[r].steps
             /\ (job'[r].pc = "failed" /\ job[r].pc # "failed") =>
                  /\ job[r].attempts = 2 /\ job'[r].thrownAt = job[r].pc
             /\ job[r].pc = "failed" => job'[r] = job[r] ]_vars

\* C15 witness: a run has failed at fetch-pr after the steps before it
\* returned, and its review is still PROCESSING
C15_Witness ==
    \E r \in DOMAIN review \cap DOMAIN job :
        /\ job[r].pc = "failed" /\ job[r].thrownAt = "fetch-pr"
        /\ {"update-status-processing", "fetch-pr-files"} \subseteq job[r].steps
        /\ review[r].status = "PROCESSING"

\* C16: fetchPullRequests returns every pull request of the repository.
C16_AllPullRequestsListed ==
    (gh.fn = "fetchPullRequests" /\ gh.pc = "done") => gh.result = Items(gh.total)

\* the two functions that loop over pages
Paginated == {"fetchGitHubRepos", "fetchPullRequestFiles"}

\* C17: fetchPullRequestFiles and fetchGitHubRepos ask for the pages 1, 2, ...
\* of 100, hold the full pages before the current one in page order, return
\* the whole list after the first short page (an empty one when the total is
\* a multiple of 100), return nothing when a response is not OK, and end.
C17_PagesAreConcatenated ==
    /\ [](gh.fn \in Paginated =>
            /\ gh.pc = "loop" =>
                 /\ (gh.page - 1) * 100 <= gh.total
                 /\ gh.acc = Items((gh.page - 1) * 100)
            /\ gh.pc = "done" =>
                 /\ gh.result = Items(gh.total)
                 /\ gh.page = (gh.total \div 100) + 1
            /\ gh.pc = "thrown" => gh.result = <<>>)
    /\ (gh.fn \in Paginated /\ gh.pc = "loop") ~> (gh.pc \in {"done", "thrown"})

\* C17 witness: fetchPullRequestFiles has returned 200 files after an empty
\* third page
C17_Witness ==
    /\ gh.fn = "fetchPullRequestFiles" /\ gh.pc = "done"
    /\ gh.total = 200 /\ gh.page = 3 /\ Len(gh.result) = 200

\* the document has a summary string, a riskScore from 0 to 100 and comments
\* whose severity and category are of the fixed enums
WellFormed(v) ==
    /\ v.summary # NULL
    /\ v.riskScore \in 0..100
    /\ \A i \in 1..Len(v.comments) :
         /\ v.comments[i].severity \in {"critical", "high", "medium", "low"}
         /\ v.comments[i].category \in
              {"bug", "security", "performance", "style", "suggestion"}

\* the latest answer of the LLM to the run j was empty, not JSON, or JSON the
\* schema rejected
Malformed(j) == j.llmOut \in {"no-content", "bad-json", "rejected"}

\* C18: while the latest answer of the LLM is malformed, reviewCode has
\* returned nothing to the run and the review is not COMPLETED and has no
\* summary, riskScore or comments; what a COMPLETED review stores is the
\* default result or a well-formed document.
C18_MalformedAnswerIsNotStored ==
    \A r \in DOMAIN job :
        /\ Malformed(job[r]) =>
             /\ job[r].reviewResult = {}
             /\ job[r].pc \in {"generate-review", "failed"}
             /\ r \in DOMAIN review =>
                  /\ review[r].status # "COMPLETED"
                  /\ review[r].summary = NULL
                  /\ review[r].riskScore = {} /\ review[r].comments = {}
        /\ (r \in DOMAIN review /\ review[r].status = "COMPLETED") =>
             \E v \in JsonValues \cup {DefaultResult} :
                 /\ WellFormed(v)
                 /\ review[r].summary = v.summary
                 /\ review[r].riskScore = {v.riskScore}
                 /\ review[r].comments = {v.comments}

\* C18 witness: the run has failed after three answers, the last one rejected
\* by the schema, and the review has stored nothing
C18_Witness ==
    \E r \in DOMAIN review \cap DOMAIN job :
        /\ job[r].pc = "failed" /\ job[r].llm = 3 /\ job[r].llmOut = "rejected"
        /\ review[r].status = "PROCESSING"
        /\ review[r].summary = NULL /\ review[r].riskScore = {}

\* the error the claim gives for user u and repository id in the current
\* tables, or "ok"
Expected(u, id) ==
    IF ~ \E row \in repository : row.id = id /\ row.userId = u THEN "NOT_FOUND"
    ELSE IF u \notin account THEN "PRECONDITION_FAILED"
    ELSE IF \E row \in repository : row.id = id /\ NoOwnerOrRepo(row.fullName)
         THEN "BAD_REQUEST"
    ELSE "ok"

PreconditionErrors == {"NOT_FOUND", "PRECONDITION_FAILED", "BAD_REQUEST"}

\* C19: pullRequest.list, get and files answer with the error Expected gives
\* for the tables, without a GitHub call, and go on to GitHub only when it
\* gives none; review.trigger throws NOT_FOUND at its first await exactly when
\* Expected gives NOT_FOUND, and at its second await, when the repository row
\* it read is still in the table, the error Expected gives, going on to GitHub
\* only when it gives none.
C19_SamePreconditionChecks ==
    /\ [](resp.op \in {"list", "get", "files"} =>
            IF Expected(resp.user, resp.repositoryId) # "ok"
            THEN resp.code = Expected(resp.user, resp.repositoryId) /\ ~resp.github
            ELSE resp.code \notin PreconditionErrors /\ resp.github)
    /\ [][ /\ (resp'.op = "trigger" /\ resp'.code \in PreconditionErrors) =>
                /\ ~resp'.github
                /\ (trig.pc = "idle" \/ trig.repository \subseteq repository) =>
                     resp'.code = Expected(resp'.user, resp'.repositoryId)
           /\ (trig.pc = "idle" /\ trig'.pc = "get-token") =>
                Expected(trig'.user, trig'.repositoryId) # "NOT_FOUND"
           /\ (trig.pc = "get-token" /\ trig'.pc = "fetch-pr"
                 /\ trig.repository \subseteq repository) =>
                Expected(trig.user, trig.repositoryId) = "ok"
         ]_vars

\* C19 witness: review.trigger has thrown BAD_REQUEST for a repository of the
\* caller, who has a token
C19_Witness ==
    /\ resp.op = "trigger" /\ resp.code = "BAD_REQUEST"
    /\ Expected(resp.user, resp.repositoryId) = "BAD_REQUEST"

\* the row of GitHub repository g in the table S, as a set
RowOf(S, g) == { row \in S : row.githubId = g }

\* the row carries the name, full name, visibility and URL of the element e
Carries(row, e) ==
    /\ row.name = e.name /\ row.fullName = e.fullName
    /\ row.private = e.private /\ row.htmlUrl = e.htmlUrl

\* C20: the table has at most one row for a GitHub id; a connect that returns
\* gives `connected` the length of its input, leaves for every GitHub id of the
\* input one row, which is the row the id had before (same id and owner) with
\* the name, full name, visibility and URL of an element of the input, or a
\* new row of the caller when it had none, and leaves every other row alone.
C20_ConnectIsIdempotent ==
    /\ [](\A r1, r2 \in repository :
            (r1.githubId = r2.githubId \/ r1.id = r2.id) => r1 = r2)
    /\ [][ (resp'.op = "repository.connect" /\ resp'.code = "ok") =>
             LET input == resp'.input
                 gids == { input[i].githubId : i \in 1..Len(input) } IN
             /\ resp'.connected = Len(input)
             /\ \A g \in gids :
                  /\ Cardinality(RowOf(repository', g)) = 1
                  /\ \A new \in RowOf(repository', g) :
                       /\ \E i \in 1..Len(input) :
                            input[i].githubId = g /\ Carries(new, input[i])
                       /\ \A old \in RowOf(repository, g) :
                            new.id = old.id /\ new.userId = old.userId
                       /\ RowOf(repository, g) = {} =>
                            new.userId = resp'.user /\ new.id >= nextRepoId
             /\ \A row \in repository :
                  row.githubId \notin gids => row \in repository'
             /\ Cardinality(repository') =
                  Cardinality(repository) +
                  Cardinality({ g \in gids : RowOf(repository, g) = {} })
         ]_vars

\* C20 witness: a connect of two repositories has returned 2; one of them was
\* connected before by the other user, whose row it still is
C20_Witness ==
    /\ resp.op = "repository.connect" /\ resp.code = "ok" /\ resp.connected = 2
    /\ \E row \in repository :
         /\ row.userId # resp.user
         /\ \E i \in 1..Len(resp.input) : resp.input[i].githubId = row.githubId
    /\ \E row \in repository : row.userId = resp.user


\* the ids of the repository rows that were deleted: ids are given in order
\* and a row leaves the table through disconnect only
GoneIds == { id \in 1..(nextRepoId - 1) : RepoById(id) = {} }

\* the rows with the id of the latest request that its caller owns
OwnRows == { row \in repository :
               row.id = resp'.repositoryId /\ row.userId = resp'.user }

\* a deleted id is in no repository.list, which gives the caller's rows, and
\* pullRequest.list with it throws NOT_FOUND
AfterDisconnect ==
    /\ resp.op = "repository.list" =>
         /\ resp.repos \cap GoneIds = {}
         /\ resp.repos = { row.id : row \in { x \in repository : x.userId = resp.user } }
    /\ (resp.op = "list" /\ resp.repositoryId \in GoneIds) => resp.code = "NOT_FOUND"

\* the call threw and the repository and review tables are as they were
NothingDeleted == resp'.code # "ok" /\ UNCHANGED <<repository, review>>

\* the call returned and exactly the caller's row with the id is gone; the
\* reviews of the other repositories are as they were
OwnRowDeleted ==
    /\ resp'.code = "ok"
    /\ Cardinality(OwnRows) = 1
    /\ repository' = repository \ OwnRows
    /\ \A r \in DOMAIN review \ ReviewsOfRepo(resp'.repositoryId) :
         r \in DOMAIN review' /\ review'[r] = review[r]

StepOrder ==
    << "update-status-processing", "get-repository", "get-access-token",
       "fetch-pr-files", "fetch-pr", "generate-review", "save-review-result" >>

\* the first k steps of the handler
FirstSteps(k) == { StepOrder[i] : i \in 1..k }

\* the full name of the repository row the run read
ReadFullName(j) == (CHOOSE x \in j.repository : TRUE).fullName

\* the steps of run r returned in the order of the handler, each branch was
\* taken on what the lookups gave, and calls came after what they need
InOrder(r) ==
    LET j == job[r] IN
    /\ \A k \in 1..Len(StepOrder) : j.pc = StepOrder[k] => j.steps = FirstSteps(k - 1)
    /\ j.steps # {} => "update-status-processing" \in j.steps
    /\ ("update-status-processing" \in j.steps /\ r \in DOMAIN review) =>
           review[r].status # "PENDING"
    /\ (j.repository # {} \/ j.accessToken # NULL) => FirstSteps(2) \subseteq j.steps
    /\ j.pc = "mark-failed-no-repo" => j.steps = FirstSteps(2) /\ j.repository = {}
    /\ j.pc = "mark-failed-no-token" =>
           j.steps = FirstSteps(3) /\ j.repository # {} /\ j.accessToken = NULL
    /\ j.pc = "mark-failed-invalid-repo" =>
           /\ j.steps = FirstSteps(3) /\ j.repository # {} /\ j.accessToken # NULL
           /\ ~ValidFullName(ReadFullName(j))
    /\ j.github =>
           /\ FirstSteps(3) \subseteq j.steps
           /\ j.repository # {} /\ j.accessToken # NULL
           /\ ValidFullName(ReadFullName(j))
    /\ (j.llm > 0 \/ j.reviewResult # {} \/ j.pc = "generate-review") =>
           /\ FirstSteps(5) \subseteq j.steps
           /\ j.pr # NULL
    /\ (r \in DOMAIN review /\ review[r].status = "COMPLETED") =>
           j.pc = "done" /\ j.steps = FirstSteps(7)
    /\ (r \in DOMAIN review /\ review[r].error = NoRepoReason) => j.repository = {}
    /\ (r \in DOMAIN review /\ review[r].error = NoTokenReason) =>
           j.repository # {} /\ j.accessToken = NULL

\* C22: a run of reviewPR takes its steps in the order mark PROCESSING, load
\* repository, resolve token, parse owner/repo, fetch PR files, fetch PR, call
\* the AI service, persist: the row has left PENDING before any lookup, the
\* failure checks go repository, token, name (a run that found no repository
\* records "No repository found" whatever the token), GitHub is not called
\* before the three checks passed, and the AI service is called after both
\* fetches returned.
C22_StepsRunInOrder == \A r \in DOMAIN job : InOrder(r)

\* C22 witness: a run ended with "No repository found" for a user who has no
\* token either
C22_Witness ==
    \E r \in DOMAIN job \cap DOMAIN review :
        /\ job[r].pc = "done" /\ review[r].error = NoRepoReason
        /\ "get-access-token" \notin job[r].steps
        /\ getGitHubAccessToken(job[r].userId) = NULL

\* the events sent for review id
EventsOf(id) == { e \in events : e.reviewId = id }

\* C23: a review.trigger that returned sent exactly one event, with the id,
\* repositoryId, prNumber and userId of the row it created; no event refers
\* to an id that was never given to a row; and every review row has its
\* event, read at the states where no call is between its create and its
\* send (a call creates the row first, so no reading can ask for more).
C23_EveryRowHasItsEvent ==
    /\ (resp.op = "trigger" /\ resp.code = "ok") =>
           \A id \in resp.reviews :
               /\ Cardinality(EventsOf(id)) = 1
               /\ id \in DOMAIN review =>
                    \A e \in EventsOf(id) :
                        /\ e.repositoryId = review[id].repositoryId
                        /\ e.prNumber = review[id].prNumber
                        /\ e.userId = review[id].userId
    /\ \A e \in events : e.reviewId \in 1..(nextReviewId - 1)
    /\ trig.pc = "idle" => \A id \in DOMAIN review : EventsOf(id) # {}

\* the positions of the files that have a patch
PatchIndexes(files) == { i \in 1..Len(files) : files[i].patch \notin {NULL, ""} }

\* the k-th smallest element of S
Nth(S, k) == CHOOSE i \in S : Cardinality({ j \in S : j < i }) = k - 1

\* C24: the prompt reviewCode sends holds the files that have a patch, in the
\* order of the input, and nothing of the others; with no such file (or no
\* file) it returns the default result, riskScore 0 and no comments, without
\* a call of the LLM and whether the API key is set or not; and a job whose
\* pull request has no file with a patch ends COMPLETED with riskScore 0 and
\* no call.
C24_OnlyPatchedFilesAreReviewed ==
    /\ ai.pc \in {"returned", "thrown"} =>
         LET idx == PatchIndexes(ai.files) IN
         /\ idx = {} =>
              /\ ai.pc = "returned" /\ ai.llm = 0
              /\ \A v \in ai.result : v.riskScore = 0 /\ v.comments = <<>>
              /\ ai.result = {DefaultResult}
         /\ idx # {} => (ai.llm > 0 <=> ai.apiKey)
         /\ ai.llm > 0 =>
              /\ Len(ai.prompt) = Cardinality(idx)
              /\ \A k \in 1..Len(ai.prompt) :
                   /\ ai.prompt[k].filename = ai.files[Nth(idx, k)].filename
                   /\ ai.prompt[k].patch = ai.files[Nth(idx, k)].patch
    /\ \A r \in DOMAIN job \cap DOMAIN review :
         (Ended(r) /\ "fetch-pr" \in job[r].steps /\ PatchIndexes(job[r].files) = {}) =>
             /\ review[r].status = "COMPLETED"
             /\ review[r].riskScore = {0} /\ review[r].comments = {<<>>}
             /\ job[r].llm = 0

\* C24 witness: a prompt that left out a file of the input, and a job of a
\* pull request without a patch that ended COMPLETED with riskScore 0
C24_Witness ==
    /\ ai.pc = "returned" /\ ai.llm > 0 /\ Len(ai.prompt) < Len(ai.files)
    /\ \E r \in DOMAIN job \cap DOMAIN review :
         /\ Ended(r) /\ PatchIndexes(job[r].files) = {}
         /\ review[r].status = "COMPLETED" /\ review[r].riskScore = {0}

\* the review rows of a repository and pull request that no row of the same
\* repository and pull request was created after
LatestReviews(id, pr) ==
    { r \in ReviewsOfPR(id, pr) : \A x \in ReviewsOfPR(id, pr) : x <= r }

\* C25: the review pullRequest.list attaches to a pull request is the most
\* recently created review row of the repository and PR number (none when
\* there is none), the one pullRequest.get returns in the same database
\* state, also for a pull request reviewed more than once.
C25_ListShowsLatestReview ==
    /\ (resp.op = "list" /\ resp.code = "ok") =>
           /\ resp.reviews = UNION { LatestReviews(resp.repositoryId, pr) : pr \in resp.prs }
           /\ resp.reviews = UNION { FindFirstReview(resp.repositoryId, pr) : pr \in resp.prs }
    /\ (resp.op = "get" /\ resp.code = "ok") =>
           resp.reviews = UNION { LatestReviews(resp.repositoryId, pr) : pr \in resp.prs }

\* the row has none of the columns a job writes besides the status
NoOutcome(row) ==
    row.summary = NULL /\ row.riskScore = {} /\ row.comments = {} /\ row.error = NULL

\* C26: the columns of a review row agree with its status: error is set (to a
\* non-empty reason) exactly when the status is FAILED; a COMPLETED row has
\* summary, riskScore and comments and no error, from the step that made it
\* COMPLETED on; a PENDING or PROCESSING row has none of the four.
C26_FieldsAgreeWithStatus ==
    \A r \in DOMAIN review :
        /\ review[r].status \in Statuses
        /\ review[r].error # NULL <=> review[r].status = "FAILED"
        /\ review[r].error # NULL => review[r].error # ""
        /\ review[r].status = "COMPLETED" =>
               /\ review[r].summary # NULL
               /\ review[r].riskScore # {} /\ review[r].comments # {}
               /\ review[r].error = NULL
        /\ review[r].status \in {"PENDING", "PROCESSING"} => NoOutcome(review[r])

\* C26 witness: a COMPLETED row with its result, written by a run that was
\* retried on the way
C26_Witness ==
    \E r \in DOMAIN review \cap DOMAIN job :
        /\ review[r].status = "COMPLETED" /\ review[r].summary # NULL
        /\ job[r].llm > 1

\* C27: a review.trigger that throws (NOT_FOUND, PRECONDITION_FAILED,
\* BAD_REQUEST, a GitHub error, a failed send) has had no effect: the step
\* that throws writes nothing, no row the call created is in the table and
\* no event was sent for one.
C27_FailedTriggerHasNoEffect ==
    [][ (resp'.op = "trigger" /\ resp'.code # "ok") =>
            /\ review' = review /\ events' = events
            /\ trig.created \cap DOMAIN review' = {}
            /\ \A e \in events' : e.reviewId \notin trig.created ]_vars

\* the rows repository.list gives user u: findMany({ where: { userId } })
ListedTo(u) == { row \in repository : row.userId = u }

\* C28: repository.connect changes no row of another user (such a row keeps
\* its owner, name, full name, visibility and URL, also when the caller
\* connects the same GitHub repository), and after a connect that returned
\* every repository of the input is in the caller's repository.list.
C28_ConnectLeavesForeignRows ==
    /\ [](( resp.op = "repository.connect" /\ resp.code = "ok") =>
              \A i \in 1..Len(resp.input) :
                  \E row \in ListedTo(resp.user) : row.githubId = resp.input[i].githubId)
    /\ [][ resp'.op = "repository.connect" =>
             \A row \in repository : row.userId # resp'.user => row \in repository' ]_vars

\* C29: every review row has the userId of the repository row it refers to,
\* whatever connects, disconnects and triggers the users made; and the
\* reviews pullRequest.list and pullRequest.get return, which they look up by
\* repository and PR number only, are reviews the caller created.
C29_ReviewOwnerIsRepositoryOwner ==
    /\ \A r \in DOMAIN review :
         \A row \in RepoById(review[r].repositoryId) : row.userId = review[r].userId
    /\ (resp.op \in {"list", "get"} /\ resp.code = "ok") =>
         \A r \in resp.reviews : r \in DOMAIN review /\ review[r].userId = resp.user

\* C29 witness: pullRequest.get returns a review of the caller's repository
\* while the other user has an account too
C29_Witness ==
    /\ resp.op = "get" /\ resp.code = "ok" /\ resp.reviews # {}
    /\ account = Users

\* the positions of a run before a mark-failed step
MarkFailedSteps ==
    { "mark-failed-no-repo", "mark-failed-no-token", "mark-failed-invalid-repo" }

\* C30: review.trigger requires the repository, the token and a well-formed
\* full name, so with no disconnect, token removal or connect between the
\* first check of the trigger and the last lookup of the job, the job's
\* lookups find what the trigger found: no run comes to a mark-failed step
\* and no review gets one of the three reasons (or any error).
C30_NoMarkFailedWithoutChange ==
    /\ \A r \in DOMAIN job :
         /\ job[r].pc \notin MarkFailedSteps
         /\ "get-repository" \in job[r].steps => job[r].repository # {}
         /\ "get-access-token" \in job[r].steps =>
                job[r].accessToken # NULL /\ ValidFullName(ReadFullName(job[r]))
    /\ \A r \in DOMAIN review : review[r].status # "FAILED" /\ review[r].error = NULL

\* C30 witness: a run passed its three checks on a repository that was
\* disconnected afterwards
C30_Witness ==
    \E r \in DOMAIN job :
        /\ "get-access-token" \in job[r].steps
        /\ RepoById(job[r].repositoryId) = {}
====
